---- MODULE Spec2Model ----
(***************************************************************************)
(* A model of the DataQuality consistency checks:                          *)
(*   src/data_quality/consistency.py  (ConsistencyChecks)                  *)
(*   src/data_quality/data_quality_checks.py (the abstract capability)     *)
(*                                                                         *)
(* The caller owns a table (sample_data) and a record-count history        *)
(* (record_counts) and invokes the two dispatchers, metrics(check_type,    *)
(* *args, **kwargs) and rules(check_type, *args, **kwargs), on one         *)
(* ConsistencyChecks instance (self).  The last invocation and its         *)
(* outcome (a returned value or a raised exception) are kept in call and   *)
(* result.                                                                 *)
(*                                                                         *)
(* Numbers.  Python/numpy floats are modelled as exact rationals           *)
(* [nan, n, d] (d > 0) with IEEE NaN semantics for comparisons and         *)
(* propagation; rounding error of binary floating point is not modelled.   *)
(* A standard deviation is kept as the rational it is the square root of.  *)
(***************************************************************************)
EXTENDS Integers, Sequences, FiniteSets, TLC

VARIABLES sample_data, record_counts, self, call, result

vars == <<sample_data, record_counts, self, call, result>>

(***************************************************************************)
(* Bounds of the model.                                                    *)
(***************************************************************************)
\* most rows of a table / entries of a record-count history
MaxRows == 3
\* cell values and record counts range over 1..MaxVal (plus NaN in a table)
MaxVal == 2
\* longest list of column names passed to a check
MaxNames == 2
\* most rows of the two-column tables of the non-null specification
MaxWideRows == 2

(***************************************************************************)
(* Floats.                                                                 *)
(***************************************************************************)
Float(n, d) == [nan |-> FALSE, n |-> n, d |-> d]

NaN == [nan |-> TRUE, n |-> 0, d |-> 1]

\* a < b, False when either side is NaN
FLt(a, b) == ~a.nan /\ ~b.nan /\ a.n * b.d < b.n * a.d

\* a <= b, False when either side is NaN
FLe(a, b) == ~a.nan /\ ~b.nan /\ a.n * b.d <= b.n * a.d

\* a > b, False when either side is NaN
FGt(a, b) == ~a.nan /\ ~b.nan /\ a.n * b.d > b.n * a.d

FMul(a, b) == IF a.nan \/ b.nan THEN NaN ELSE Float(a.n * b.n, a.d * b.d)

FAdd(a, b) == IF a.nan \/ b.nan THEN NaN ELSE Float(a.n * b.d + b.n * a.d, a.d * b.d)

FSub(a, b) == IF a.nan \/ b.nan THEN NaN ELSE Float(a.n * b.d - b.n * a.d, a.d * b.d)

One == Float(1, 1)

(***************************************************************************)
(* Sequences and tables.                                                   *)
(***************************************************************************)
Range(s) == {s[i] : i \in DOMAIN s}

Max(a, b) == IF a >= b THEN a ELSE b

Min(a, b) == IF a <= b THEN a ELSE b

RECURSIVE SumSeq(_)
SumSeq(s) == IF s = <<>> THEN 0 ELSE Head(s) + SumSeq(Tail(s))

\* the number of positions of a boolean sequence holding True: Series.sum()
CountTrue(flags) == Cardinality({i \in DOMAIN flags : flags[i]})

SeqsUpTo(S, n) == UNION {[1..k -> S] : k \in 0..n}

\* a table: a row count and, per column name, a sequence of nrows cells
Columns(df) == DOMAIN df.data

Length(df) == df.nrows

ColNames == {"id", "value"}

\* column names a caller may pass: those of the tables and one no table has
ColArgs == ColNames \cup {"missing"}

Cells == {NaN} \cup {Float(k, 1) : k \in 1..MaxVal}

TablesOver(names, rows) ==
    UNION {{[nrows |-> n, data |-> d] : d \in [c -> [1..n -> Cells]]} :
           <<n, c>> \in (0..rows) \X (SUBSET names)}

\* numeric arguments a caller may pass: thresholds, reference values, counts
Nums == 0..(MaxVal + 1)

Tolerances == {Float(0, 1), Float(1, 2), Float(1, 1)}

NameLists == SeqsUpTo(ColArgs, MaxNames)

(***************************************************************************)
(* Outcomes of a call: a returned value, or a raised exception.            *)
(***************************************************************************)
Return(v) == [status |-> "ok", value |-> v]

Raise(exception, arg) == [status |-> exception, value |-> arg]

\* an f-string: its template and the values substituted into it, by expression
FString(template, subst) == [template |-> template, subst |-> subst]

(***************************************************************************)
(* The nine checks.  df[column] raises KeyError when the table has no such *)
(* column.                                                                 *)
(***************************************************************************)
\* duplicated(keep=False): True at every occurrence of a repeated value
duplicated_keep_false(col) ==
    [i \in DOMAIN col |-> \E j \in DOMAIN col : j # i /\ col[j] = col[i]]

\* Series.duplicated(): True at every occurrence of a value after its first
duplicated(col) == [i \in DOMAIN col |-> \E j \in 1..(i - 1) : col[j] = col[i]]

\* Series.notnull() in place of isnull()
isnull_negated(col) == [i \in DOMAIN col |-> ~col[i].nan]

\* Series.isnull()
isnull(col) == [i \in DOMAIN col |-> col[i].nan]

metrics_unique_identifiers(df, id_col) ==
    IF id_col \notin Columns(df) THEN Raise("KeyError", id_col)
    ELSE Return(CountTrue(duplicated(df.data[id_col])))

rules_unique_identifiers(df, id_col) ==
    LET m == metrics_unique_identifiers(df, id_col)
        duplicates == m.value
    IN  IF m.status # "ok" THEN m
        ELSE Return(<<duplicates = 0,
                      FString("{duplicates} duplicate identifiers found.",
                              [duplicates |-> duplicates])>>)

\* the symmetric difference: columns that are not expected are reported too
metrics_schema_consistency_symmetric(df, expected_columns) ==
    Return((Range(expected_columns) \ Columns(df))
               \cup (Columns(df) \ Range(expected_columns)))

metrics_schema_consistency(df, expected_columns) ==
    Return(Range(expected_columns) \ Columns(df))

rules_schema_consistency(df, expected_columns) ==
    LET m == metrics_schema_consistency(df, expected_columns)
        missing_cols == m.value
    IN  Return(<<Cardinality(missing_cols) = 0,
                 FString("Missing columns: {missing_cols}",
                         [missing_cols |-> missing_cols])>>)

metrics_non_null(df, columns) ==
    LET absent == {i \in DOMAIN columns : columns[i] \notin Columns(df)}
        first == CHOOSE i \in absent : \A j \in absent : i <= j
    IN  IF absent # {} THEN Raise("KeyError", columns[first])
        ELSE Return([c \in Range(columns) |-> CountTrue(isnull(df.data[c]))])

rules_non_null(df, columns) ==
    LET m == metrics_non_null(df, columns)
        null_counts == m.value
        invalid_cols == [c \in {k \in DOMAIN null_counts : null_counts[k] > 0}
                           |-> null_counts[c]]
    IN  IF m.status # "ok" THEN m
        ELSE Return(<<Cardinality(DOMAIN invalid_cols) = 0,
                      FString("Null values found in columns: {invalid_cols}",
                              [invalid_cols |-> invalid_cols])>>)

\* <= and >= in place of < and >: a value on a bound is counted
metrics_threshold_inclusive(df, column, min_val, max_val) ==
    IF column \notin Columns(df) THEN Raise("KeyError", column)
    ELSE LET col == df.data[column]
         IN  Return(CountTrue([i \in DOMAIN col |->
                        FLe(col[i], min_val) \/ FLe(max_val, col[i])]))

metrics_threshold(df, column, min_val, max_val) ==
    IF column \notin Columns(df) THEN Raise("KeyError", column)
    ELSE LET col == df.data[column]
         IN  Return(CountTrue([i \in DOMAIN col |->
                        FLt(col[i], min_val) \/ FGt(col[i], max_val)]))

rules_threshold(df, column, min_val, max_val) ==
    LET m == metrics_threshold(df, column, min_val, max_val)
        outliers == m.value
    IN  IF m.status # "ok" THEN m
        ELSE Return(<<outliers = 0,
                      FString("{outliers} values are outside the range [{min_val}, {max_val}].",
                              [outliers |-> outliers, min_val |-> min_val,
                               max_val |-> max_val])>>)

metrics_dynamic_threshold(df, column, reference_value, tolerance) ==
    IF column \notin Columns(df) THEN Raise("KeyError", column)
    ELSE LET col == df.data[column]
             lower == FMul(reference_value, FSub(One, tolerance))
             upper == FMul(reference_value, FAdd(One, tolerance))
         IN  Return(CountTrue([i \in DOMAIN col |->
                        FLt(col[i], lower) \/ FGt(col[i], upper)]))

rules_dynamic_threshold(df, column, reference_value, tolerance) ==
    LET m == metrics_dynamic_threshold(df, column, reference_value, tolerance)
        outliers == m.value
    IN  IF m.status # "ok" THEN m
        ELSE Return(<<outliers = 0,
                      FString("{outliers} values exceed dynamic thresholds.",
                              [outliers |-> outliers])>>)

\* SelectSeq keeps the non-null cells: Series.var() skips NaN
NotNull(x) == ~x.nan

Numerator(x) == x.n

Square(k) == k * k

\* the population variance (ddof = 0) in place of the sample variance
var_population(col) ==
    LET xs == SelectSeq(col, NotNull)
        n == Len(xs)
        sum == SumSeq([i \in 1..n |-> Numerator(xs[i])])
        sumsq == SumSeq([i \in 1..n |-> Square(Numerator(xs[i]))])
    IN  IF n < 1 THEN NaN ELSE Float(n * sumsq - sum * sum, n * n)

\* Series.var(): the sample variance (ddof = 1) of the non-null cells, NaN
\* when fewer than two remain; the cells are whole numbers
var(col) ==
    LET xs == SelectSeq(col, NotNull)
        n == Len(xs)
        sum == SumSeq([i \in 1..n |-> Numerator(xs[i])])
        sumsq == SumSeq([i \in 1..n |-> Square(Numerator(xs[i]))])
    IN  IF n < 2 THEN NaN ELSE Float(n * sumsq - sum * sum, n * (n - 1))

metrics_variance(df, column) ==
    IF column \notin Columns(df) THEN Raise("KeyError", column)
    ELSE Return(var(df.data[column]))

rules_variance(df, column, max_variance) ==
    LET m == metrics_variance(df, column)
        variance == m.value
    IN  IF m.status # "ok" THEN m
        ELSE Return(<<FLe(variance, max_variance),
                      FString("Variance ({variance}) exceeds the maximum allowed ({max_variance}).",
                              [variance |-> variance, max_variance |-> max_variance])>>)

\* seq[start:] of a Python sequence: a negative start counts from the end and
\* is clamped at the first position, a start of 0 (also -0) is the first
PySliceFrom(seq, start) ==
    LET len == Len(seq)
        i == IF start < 0 THEN Max(len + start, 0) ELSE Min(start, len)
    IN  SubSeq(seq, i + 1, len)

\* np.mean: NaN for an empty sequence
np_mean(xs) == IF Len(xs) = 0 THEN NaN ELSE Float(SumSeq(xs), Len(xs))

\* np.std: the population standard deviation (ddof = 0), NaN for an empty
\* sequence; kept as the variance it is the square root of
np_std(xs) ==
    LET n == Len(xs)
        sum == SumSeq(xs)
        sumsq == SumSeq([i \in 1..n |-> Square(xs[i])])
    IN  [sqrt_of |-> IF n = 0 THEN NaN ELSE Float(n * sumsq - sum * sum, n * n)]

\* mean + k * std_dev for k in {-3, 3}, kept symbolically
Limit(mean, k, std_dev) == [mean |-> mean, k |-> k, std_dev |-> std_dev]

\* x <= 3 * sqrt(v): x is not positive, or x * x <= 9 * v
LeThreeRoots(x, v) == FLe(x, Float(0, 1)) \/ FLe(FMul(x, x), FMul(Float(9, 1), v))

\* lower_limit <= current_count, with lower_limit = mean - 3 * std_dev
LimitLe(lower_limit, current_count) ==
    LeThreeRoots(FSub(lower_limit.mean, current_count), lower_limit.std_dev.sqrt_of)

\* current_count <= upper_limit, with upper_limit = mean + 3 * std_dev
LeLimit(current_count, upper_limit) ==
    LeThreeRoots(FSub(current_count, upper_limit.mean), upper_limit.std_dev.sqrt_of)

DefaultLookback == 30

metrics_record_anomalies(counts, lookback_period) ==
    LET mean == np_mean(PySliceFrom(counts, -lookback_period))
        std_dev == np_std(PySliceFrom(counts, -lookback_period))
    IN  Return(<<mean, std_dev>>)

rules_record_anomalies(counts, current_count, lookback_period) ==
    LET m == metrics_record_anomalies(counts, lookback_period)
        mean == m.value[1]
        std_dev == m.value[2]
        lower_limit == Limit(mean, -3, std_dev)
        upper_limit == Limit(mean, 3, std_dev)
    IN  Return(<<LimitLe(lower_limit, current_count) /\ LeLimit(current_count, upper_limit),
                 FString("Record count {current_count} is outside 3 standard deviations [{lower_limit}, {upper_limit}] of the mean.",
                         [current_count |-> current_count, lower_limit |-> lower_limit,
                          upper_limit |-> upper_limit])>>)

metrics_non_zero_records(df) == Return(Length(df))

rules_non_zero_records(df) ==
    LET m == metrics_non_zero_records(df)
        record_count == m.value
    IN  Return(<<record_count > 0, FString("No records found in the dataset.", <<>>)>>)

metrics_column_name_consistency(df, historical_columns) ==
    Return(Range(historical_columns) \ Columns(df))

rules_column_name_consistency(df, historical_columns) ==
    LET m == metrics_column_name_consistency(df, historical_columns)
        inconsistent_cols == m.value
    IN  Return(<<Cardinality(inconsistent_cols) = 0,
                 FString("Inconsistent column names: {inconsistent_cols}",
                         [inconsistent_cols |-> inconsistent_cols])>>)

(***************************************************************************)
(* Calling a method with *args and **kwargs.                               *)
(***************************************************************************)
\* the parameters of each method after self, in order
Params ==
    [metrics_unique_identifiers |-> <<"df", "id_col">>,
     rules_unique_identifiers |-> <<"df", "id_col">>,
     metrics_schema_consistency |-> <<"df", "expected_columns">>,
     rules_schema_consistency |-> <<"df", "expected_columns">>,
     metrics_non_null |-> <<"df", "columns">>,
     rules_non_null |-> <<"df", "columns">>,
     metrics_threshold |-> <<"df", "column", "min_val", "max_val">>,
     rules_threshold |-> <<"df", "column", "min_val", "max_val">>,
     metrics_dynamic_threshold |-> <<"df", "column", "reference_value", "tolerance">>,
     rules_dynamic_threshold |-> <<"df", "column", "reference_value", "tolerance">>,
     metrics_variance |-> <<"df", "column">>,
     rules_variance |-> <<"df", "column", "max_variance">>,
     metrics_record_anomalies |-> <<"record_counts", "lookback_period">>,
     rules_record_anomalies |-> <<"record_counts", "current_count", "lookback_period">>,
     metrics_non_zero_records |-> <<"df">>,
     rules_non_zero_records |-> <<"df">>,
     metrics_column_name_consistency |-> <<"df", "historical_columns">>,
     rules_column_name_consistency |-> <<"df", "historical_columns">>]

\* the parameters that have a default value
Defaults(method) ==
    IF method \in {"metrics_record_anomalies", "rules_record_anomalies"}
    THEN [lookback_period |-> DefaultLookback]
    ELSE <<>>

\* Python's binding of positional arguments and keyword arguments (a set of
\* <<name, value>> pairs, one per name) to parameters:
\* TypeError on too many positionals, an unexpected keyword, a parameter
\* given twice or a parameter without a default left unbound
Bind(params, defaults, args, kwargs) ==
    LET names == Range(params)
        keywords == {kv[1] : kv \in kwargs}
        keyword(k) == (CHOOSE kv \in kwargs : kv[1] = k)[2]
        index(p) == CHOOSE i \in DOMAIN params : params[i] = p
        too_many == Len(args) > Len(params)
        unexpected == \E k \in keywords : k \notin names
        twice == \E k \in keywords : k \in names /\ index(k) <= Len(args)
        unbound == \E p \in names : /\ index(p) > Len(args)
                                    /\ p \notin keywords
                                    /\ p \notin DOMAIN defaults
    IN  IF too_many \/ unexpected \/ twice \/ unbound
        THEN [ok |-> FALSE, env |-> <<>>]
        ELSE [ok |-> TRUE,
              env |-> [p \in names |->
                         IF index(p) <= Len(args) THEN args[index(p)]
                         ELSE IF p \in keywords THEN keyword(p)
                         ELSE defaults[p]]]

\* method(*args, **kwargs)
Invoke(method, args, kwargs) ==
    LET b == Bind(Params[method], Defaults(method), args, kwargs)
        a == b.env
    IN  IF ~b.ok THEN Raise("TypeError", method)
        ELSE CASE method = "metrics_unique_identifiers" ->
                    metrics_unique_identifiers(a["df"], a["id_col"])
               [] method = "rules_unique_identifiers" ->
                    rules_unique_identifiers(a["df"], a["id_col"])
               [] method = "metrics_schema_consistency" ->
                    metrics_schema_consistency(a["df"], a["expected_columns"])
               [] method = "rules_schema_consistency" ->
                    rules_schema_consistency(a["df"], a["expected_columns"])
               [] method = "metrics_non_null" ->
                    metrics_non_null(a["df"], a["columns"])
               [] method = "rules_non_null" ->
                    rules_non_null(a["df"], a["columns"])
               [] method = "metrics_threshold" ->
                    metrics_threshold(a["df"], a["column"], a["min_val"], a["max_val"])
               [] method = "rules_threshold" ->
                    rules_threshold(a["df"], a["column"], a["min_val"], a["max_val"])
               [] method = "metrics_dynamic_threshold" ->
                    metrics_dynamic_threshold(a["df"], a["column"], a["reference_value"],
                                              a["tolerance"])
               [] method = "rules_dynamic_threshold" ->
                    rules_dynamic_threshold(a["df"], a["column"], a["reference_value"],
                                            a["tolerance"])
               [] method = "metrics_variance" ->
                    metrics_variance(a["df"], a["column"])
               [] method = "rules_variance" ->
                    rules_variance(a["df"], a["column"], a["max_variance"])
               [] method = "metrics_record_anomalies" ->
                    metrics_record_anomalies(a["record_counts"], a["lookback_period"])
               [] method = "rules_record_anomalies" ->
                    rules_record_anomalies(a["record_counts"], a["current_count"],
                                           a["lookback_period"])
               [] method = "metrics_non_zero_records" ->
                    metrics_non_zero_records(a["df"])
               [] method = "rules_non_zero_records" ->
                    rules_non_zero_records(a["df"])
               [] method = "metrics_column_name_consistency" ->
                    metrics_column_name_consistency(a["df"], a["historical_columns"])
               [] method = "rules_column_name_consistency" ->
                    rules_column_name_consistency(a["df"], a["historical_columns"])

(***************************************************************************)
(* The dispatchers.                                                        *)
(***************************************************************************)
metrics_methods ==
    [unique_identifiers |-> "metrics_unique_identifiers",
     schema_consistency |-> "metrics_schema_consistency",
     non_null |-> "metrics_non_null",
     threshold |-> "metrics_threshold",
     dynamic_threshold |-> "metrics_dynamic_threshold",
     variance |-> "metrics_variance",
     record_anomalies |-> "metrics_record_anomalies",
     non_zero_records |-> "metrics_non_zero_records",
     column_name_consistency |-> "metrics_column_name_consistency"]

rules_methods ==
    [unique_identifiers |-> "rules_unique_identifiers",
     schema_consistency |-> "rules_schema_consistency",
     non_null |-> "rules_non_null",
     threshold |-> "rules_threshold",
     dynamic_threshold |-> "rules_dynamic_threshold",
     variance |-> "rules_variance",
     record_anomalies |-> "rules_record_anomalies",
     non_zero_records |-> "rules_non_zero_records",
     column_name_consistency |-> "rules_column_name_consistency"]

\* dict.get in place of the membership test: an unknown name gives None
metrics_without_raise(check_type, args, kwargs) ==
    IF check_type \in DOMAIN metrics_methods
    THEN Invoke(metrics_methods[check_type], args, kwargs)
    ELSE Return("None")

metrics(check_type, args, kwargs) ==
    IF check_type \in DOMAIN metrics_methods
    THEN Invoke(metrics_methods[check_type], args, kwargs)
    ELSE Raise("ValueError", <<"Unknown check type for metrics: ", check_type>>)

rules(check_type, args, kwargs) ==
    IF check_type \in DOMAIN rules_methods
    THEN Invoke(rules_methods[check_type], args, kwargs)
    ELSE Raise("ValueError", <<"Unknown check type for rules: ", check_type>>)

(***************************************************************************)
(* The caller's side: the tables, histories and arguments it passes.       *)
(***************************************************************************)
F(k) == Float(k, 1)

\* the tests' sample table, scaled to the bounds: a repeated id and a missing
\* value
SampleData ==
    [nrows |-> 3,
     data |-> [id |-> <<F(1), F(2), F(2)>>,
               value |-> <<F(1), F(2), NaN>>]]

\* the tests' historical column names: the columns of the sample table
HistoricalColumns == <<"id", "value">>

\* a table of the same columns and no rows
EmptyData == [nrows |-> 0, data |-> [c \in ColNames |-> <<>>]]

\* the tests' record-count history, scaled to the bounds
SampleCounts == <<1, 2, 1>>

NumArgs == {F(k) : k \in Nums}

Lookbacks == 0..(MaxRows + 1)

\* names the dispatchers do not know: the spec's example and the two names
\* the tests use for the last two checks
UnknownTypes == {"nonexistent", "record_count_greater_than_zero", "column_names_consistency"}

NoKwargs == {}

NoCall == [kind |-> "none", check_type |-> "", args |-> <<>>, kwargs |-> NoKwargs]

NoResult == [status |-> "none", value |-> <<>>]

\* the outcome of one dispatcher call
Outcome(kind, check_type, args, kwargs) ==
    IF kind = "metrics" THEN metrics(check_type, args, kwargs)
    ELSE rules(check_type, args, kwargs)

\* a call that drops the rows of the caller's table in place
DoCall_in_place(kind, check_type, args, kwargs) ==
    /\ call' = [kind |-> kind, check_type |-> check_type, args |-> args, kwargs |-> kwargs]
    /\ result' = Outcome(kind, check_type, args, kwargs)
    /\ sample_data' = [nrows |-> 0, data |-> [c \in Columns(sample_data) |-> <<>>]]
    /\ UNCHANGED <<record_counts, self>>

\* One dispatcher call.  No statement of the class assigns to an argument, to
\* one of its parts or to an attribute of self, and the pandas and numpy
\* operations used (duplicated, isnull, comparisons, sum, var, slicing, mean,
\* std, len, set) return new objects.
DoCall(kind, check_type, args, kwargs) ==
    /\ call' = [kind |-> kind, check_type |-> check_type, args |-> args, kwargs |-> kwargs]
    /\ result' = Outcome(kind, check_type, args, kwargs)
    /\ UNCHANGED <<sample_data, record_counts, self>>

Metrics_unique_identifiers ==
    \E id_col \in ColArgs :
        DoCall("metrics", "unique_identifiers", <<sample_data, id_col>>, NoKwargs)

Rules_unique_identifiers ==
    \E id_col \in ColArgs :
        DoCall("rules", "unique_identifiers", <<sample_data, id_col>>, NoKwargs)

Metrics_schema_consistency ==
    \E expected_columns \in NameLists :
        DoCall("metrics", "schema_consistency", <<sample_data, expected_columns>>, NoKwargs)

Rules_schema_consistency ==
    \E expected_columns \in NameLists :
        DoCall("rules", "schema_consistency", <<sample_data, expected_columns>>, NoKwargs)

Metrics_non_null ==
    \E columns \in NameLists :
        DoCall("metrics", "non_null", <<sample_data, columns>>, NoKwargs)

Rules_non_null ==
    \E columns \in NameLists :
        DoCall("rules", "non_null", <<sample_data, columns>>, NoKwargs)

Metrics_threshold ==
    \E column \in ColArgs, min_val \in NumArgs, max_val \in NumArgs :
        DoCall("metrics", "threshold", <<sample_data, column, min_val, max_val>>, NoKwargs)

Rules_threshold ==
    \E column \in ColArgs, min_val \in NumArgs, max_val \in NumArgs :
        DoCall("rules", "threshold", <<sample_data, column, min_val, max_val>>, NoKwargs)

Metrics_dynamic_threshold ==
    \E column \in ColArgs, reference_value \in NumArgs, tolerance \in Tolerances :
        DoCall("metrics", "dynamic_threshold",
               <<sample_data, column, reference_value, tolerance>>, NoKwargs)

Rules_dynamic_threshold ==
    \E column \in ColArgs, reference_value \in NumArgs, tolerance \in Tolerances :
        DoCall("rules", "dynamic_threshold",
               <<sample_data, column, reference_value, tolerance>>, NoKwargs)

Metrics_variance ==
    \E column \in ColArgs :
        DoCall("metrics", "variance", <<sample_data, column>>, NoKwargs)

\* the maximum passed by position, by its name, by the name the tests use
\* (threshold=...), or not at all
Rules_variance ==
    \E column \in ColArgs, max_variance \in NumArgs :
        \/ DoCall("rules", "variance", <<sample_data, column, max_variance>>, NoKwargs)
        \/ DoCall("rules", "variance", <<sample_data, column>>,
                  {<<"max_variance", max_variance>>})
        \/ DoCall("rules", "variance", <<sample_data, column>>, {<<"threshold", max_variance>>})
        \/ DoCall("rules", "variance", <<sample_data, column>>, NoKwargs)

Metrics_record_anomalies ==
    \/ DoCall("metrics", "record_anomalies", <<record_counts>>, NoKwargs)
    \/ \E lookback_period \in Lookbacks :
          DoCall("metrics", "record_anomalies", <<record_counts, lookback_period>>, NoKwargs)

\* the tests call the rule without a current_count
Rules_record_anomalies ==
    \/ DoCall("rules", "record_anomalies", <<record_counts>>, NoKwargs)
    \/ \E current_count \in NumArgs :
          DoCall("rules", "record_anomalies", <<record_counts, current_count>>, NoKwargs)
    \/ \E current_count \in NumArgs, lookback_period \in Lookbacks :
          DoCall("rules", "record_anomalies",
                 <<record_counts, current_count, lookback_period>>, NoKwargs)

Metrics_non_zero_records ==
    DoCall("metrics", "non_zero_records", <<sample_data>>, NoKwargs)

Rules_non_zero_records ==
    DoCall("rules", "non_zero_records", <<sample_data>>, NoKwargs)

Metrics_column_name_consistency ==
    \E historical_columns \in NameLists :
        DoCall("metrics", "column_name_consistency",
               <<sample_data, historical_columns>>, NoKwargs)

Rules_column_name_consistency ==
    \E historical_columns \in NameLists :
        DoCall("rules", "column_name_consistency",
               <<sample_data, historical_columns>>, NoKwargs)

\* a check name outside the dispatch tables, with no, one or two arguments
Metrics_unknown ==
    \E check_type \in UnknownTypes :
        \/ DoCall("metrics", check_type, <<>>, NoKwargs)
        \/ DoCall("metrics", check_type, <<sample_data>>, NoKwargs)
        \/ DoCall("metrics", check_type, <<sample_data, HistoricalColumns>>, NoKwargs)

Rules_unknown ==
    \E check_type \in UnknownTypes :
        \/ DoCall("rules", check_type, <<>>, NoKwargs)
        \/ DoCall("rules", check_type, <<sample_data>>, NoKwargs)
        \/ DoCall("rules", check_type, <<sample_data, HistoricalColumns>>, NoKwargs)

\* the caller gives its table a column it lacks, filled with missing values
AddColumn ==
    \E c \in ColNames \ Columns(sample_data) :
        /\ sample_data' = [sample_data EXCEPT !.data =
                              [k \in Columns(sample_data) \cup {c} |->
                                  IF k = c THEN [i \in 1..sample_data.nrows |-> NaN]
                                  ELSE sample_data.data[k]]]
        /\ UNCHANGED <<record_counts, self, call, result>>

\* the caller drops a column of its table
DropColumn ==
    \E c \in Columns(sample_data) :
        /\ sample_data' = [sample_data EXCEPT !.data =
                              [k \in Columns(sample_data) \ {c} |-> sample_data.data[k]]]
        /\ UNCHANGED <<record_counts, self, call, result>>

(***************************************************************************)
(* Specifications.                                                         *)
(***************************************************************************)
\* a ConsistencyChecks instance has no attributes: the class defines no
\* __init__ and no method assigns to self
NoAttributes == <<>>

Fresh ==
    /\ self = NoAttributes
    /\ call = NoCall
    /\ result = NoResult

\* Any sequence of dispatcher calls on the sample table, or on one without
\* rows, and the sample history.
Init ==
    /\ sample_data \in {SampleData, EmptyData}
    /\ record_counts = SampleCounts
    /\ Fresh

Next ==
    \/ Metrics_unique_identifiers
    \/ Rules_unique_identifiers
    \/ Metrics_schema_consistency
    \/ Rules_schema_consistency
    \/ Metrics_non_null
    \/ Rules_non_null
    \/ Metrics_threshold
    \/ Rules_threshold
    \/ Metrics_dynamic_threshold
    \/ Rules_dynamic_threshold
    \/ Metrics_variance
    \/ Rules_variance
    \/ Metrics_record_anomalies
    \/ Rules_record_anomalies
    \/ Metrics_non_zero_records
    \/ Rules_non_zero_records
    \/ Metrics_column_name_consistency
    \/ Rules_column_name_consistency
    \/ Metrics_unknown
    \/ Rules_unknown

Spec == Init /\ [][Next]_vars

\* the state before the first call
NotCalled == call = NoCall

\* unique_identifiers on every table of one identifier column
InitUnique ==
    /\ sample_data \in TablesOver({"id"}, MaxRows)
    /\ record_counts = SampleCounts
    /\ Fresh

NextUnique ==
    \/ NotCalled /\ Metrics_unique_identifiers
    \/ NotCalled /\ Rules_unique_identifiers

SpecUnique == InitUnique /\ [][NextUnique]_vars

\* non_null on every table of up to two columns
InitNonNull ==
    /\ sample_data \in TablesOver({"id", "value"}, MaxWideRows)
    /\ record_counts = SampleCounts
    /\ Fresh

NextNonNull ==
    \/ NotCalled /\ Metrics_non_null
    \/ NotCalled /\ Rules_non_null

SpecNonNull == InitNonNull /\ [][NextNonNull]_vars

\* threshold and dynamic_threshold on every table of one value column
InitThreshold ==
    /\ sample_data \in TablesOver({"value"}, MaxRows)
    /\ record_counts = SampleCounts
    /\ Fresh

NextThreshold ==
    \/ NotCalled /\ Metrics_threshold
    \/ NotCalled /\ Rules_threshold
    \/ NotCalled /\ Metrics_dynamic_threshold
    \/ NotCalled /\ Rules_dynamic_threshold

SpecThreshold == InitThreshold /\ [][NextThreshold]_vars

\* variance on every table of one value column
InitVariance ==
    /\ sample_data \in TablesOver({"value"}, MaxRows)
    /\ record_counts = SampleCounts
    /\ Fresh

NextVariance ==
    \/ NotCalled /\ Metrics_variance
    \/ NotCalled /\ Rules_variance

SpecVariance == InitVariance /\ [][NextVariance]_vars

\* record_anomalies on every history of up to MaxRows counts
InitAnomalies ==
    /\ sample_data = SampleData
    /\ record_counts \in SeqsUpTo(1..MaxVal, MaxRows)
    /\ Fresh

NextAnomalies ==
    \/ NotCalled /\ Metrics_record_anomalies
    \/ NotCalled /\ Rules_record_anomalies

SpecAnomalies == InitAnomalies /\ [][NextAnomalies]_vars

\* the two set-difference checks on the tables the caller gets by adding and
\* dropping columns of the sample table
InitSchema ==
    /\ sample_data = SampleData
    /\ record_counts = SampleCounts
    /\ Fresh

NextSchema ==
    \/ NotCalled /\ Metrics_schema_consistency
    \/ NotCalled /\ Rules_schema_consistency
    \/ NotCalled /\ Metrics_column_name_consistency
    \/ NotCalled /\ Rules_column_name_consistency
    \/ NotCalled /\ AddColumn
    \/ NotCalled /\ DropColumn

SpecSchema == InitSchema /\ [][NextSchema]_vars

(***************************************************************************)
(* Properties.                                                             *)
(***************************************************************************)
Called == call.kind \in {"metrics", "rules"}

\* the nine recognized check names
NineChecks ==
    {"unique_identifiers", "schema_consistency", "non_null", "threshold",
     "dynamic_threshold", "variance", "record_anomalies", "non_zero_records",
     "column_name_consistency"}

\* the function of a check: metrics_<name> or rules_<name>
FunctionOf(kind, check_type) ==
    CASE check_type = "unique_identifiers" ->
            IF kind = "metrics" THEN "metrics_unique_identifiers" ELSE "rules_unique_identifiers"
      [] check_type = "schema_consistency" ->
            IF kind = "metrics" THEN "metrics_schema_consistency" ELSE "rules_schema_consistency"
      [] check_type = "non_null" ->
            IF kind = "metrics" THEN "metrics_non_null" ELSE "rules_non_null"
      [] check_type = "threshold" ->
            IF kind = "metrics" THEN "metrics_threshold" ELSE "rules_threshold"
      [] check_type = "dynamic_threshold" ->
            IF kind = "metrics" THEN "metrics_dynamic_threshold" ELSE "rules_dynamic_threshold"
      [] check_type = "variance" ->
            IF kind = "metrics" THEN "metrics_variance" ELSE "rules_variance"
      [] check_type = "record_anomalies" ->
            IF kind = "metrics" THEN "metrics_record_anomalies" ELSE "rules_record_anomalies"
      [] check_type = "non_zero_records" ->
            IF kind = "metrics" THEN "metrics_non_zero_records" ELSE "rules_non_zero_records"
      [] check_type = "column_name_consistency" ->
            IF kind = "metrics" THEN "metrics_column_name_consistency"
            ELSE "rules_column_name_consistency"

C7_TestNamesAccepted ==
    /\ ( /\ Called
         /\ call.check_type = "record_count_greater_than_zero"
         /\ Len(call.args) = 1
         /\ Length(call.args[1]) > 0 )
       => /\ result.status = "ok"
          /\ IF call.kind = "metrics" THEN result.value > 0 ELSE result.value[1]
    /\ ( /\ Called
         /\ call.check_type = "column_names_consistency"
         /\ Len(call.args) = 2
         /\ Range(call.args[2]) \subseteq Columns(call.args[1]) )
       => /\ result.status = "ok"
          /\ IF call.kind = "metrics" THEN result.value = {} ELSE result.value[1]

\* the expressions of a rule that hold the metric it observed
MetricExpressions ==
    [unique_identifiers |-> {"duplicates"},
     schema_consistency |-> {"missing_cols"},
     non_null |-> {"null_counts", "invalid_cols"},
     threshold |-> {"outliers"},
     dynamic_threshold |-> {"outliers"},
     variance |-> {"variance"},
     record_anomalies |-> {"mean", "std_dev", "lower_limit", "upper_limit"},
     non_zero_records |-> {"record_count"},
     column_name_consistency |-> {"inconsistent_cols"}]

\* the expressions of a rule that hold the threshold the caller supplied;
\* the other checks are judged against a fixed expectation
ThresholdExpressions ==
    [unique_identifiers |-> {},
     schema_consistency |-> {},
     non_null |-> {},
     threshold |-> {"min_val", "max_val"},
     dynamic_threshold |-> {"reference_value", "tolerance", "lower", "upper"},
     variance |-> {"max_variance"},
     record_anomalies |-> {"lower_limit", "upper_limit"},
     non_zero_records |-> {},
     column_name_consistency |-> {}]

Shows(message, expressions) == DOMAIN message.subst \cap expressions # {}

\* C9: whenever a rule returns, it returns a pair (passed, message) whose
\* message holds the observed metric and, for a check judged against a
\* threshold the caller supplied, that threshold; pass or fail.
C9_MessageShowsMetricAndThreshold ==
    (call.kind = "rules" /\ result.status = "ok") =>
        LET passed == result.value[1]
            message == result.value[2]
        IN  /\ Len(result.value) = 2
            /\ passed \in BOOLEAN
            /\ Shows(message, MetricExpressions[call.check_type])
            /\ ThresholdExpressions[call.check_type] # {}
                  => Shows(message, ThresholdExpressions[call.check_type])

\* the call of this step is the call of the step before it
SameCall ==
    /\ call'.kind = call.kind
    /\ call'.check_type = call.check_type
    /\ Len(call'.args) = Len(call.args)
    /\ call'.args = call.args
    /\ call'.kwargs = call.kwargs

CalledCheck(check_type, n) ==
    /\ Called
    /\ call.check_type = check_type
    /\ Len(call.args) = n

\* the spec's example: ids 1, 2, 3, 4, 4
ExampleIds ==
    [nrows |-> 5, data |-> [id |-> <<F(1), F(2), F(3), F(4), F(4)>>]]

\* C2: for an identifier column of the table, the unique_identifiers metric is
\* the number of rows minus the number of distinct values of the column, and
\* the rule passes iff that is 0 and reports it; ids 1, 2, 3, 4, 4 give
\* metric 1 and rule (False, "1 duplicate identifiers found.").
C2_DuplicatesAreRowsMinusDistinct ==
    /\ ( CalledCheck("unique_identifiers", 2) /\ call.args[2] \in Columns(call.args[1]) )
       => LET T == call.args[1]
              expected == Length(T) - Cardinality(Range(T.data[call.args[2]]))
          IN  /\ result.status = "ok"
              /\ IF call.kind = "metrics" THEN result.value = expected
                 ELSE /\ result.value[1] = (expected = 0)
                      /\ result.value[2].subst.duplicates = expected
    /\ metrics("unique_identifiers", <<ExampleIds, "id">>, NoKwargs) = Return(1)
    /\ rules("unique_identifiers", <<ExampleIds, "id">>, NoKwargs)
          = Return(<<FALSE, FString("{duplicates} duplicate identifiers found.",
                                    [duplicates |-> 1])>>)

\* the rule failed on a column holding a value three times: two duplicates
C2_Witness ==
    /\ CalledCheck("unique_identifiers", 2)
    /\ call.kind = "rules"
    /\ result.status = "ok"
    /\ ~result.value[1]
    /\ result.value[2].subst.duplicates = 2

\* a cell lies strictly below lo or strictly above hi; a missing cell does not
StrictlyOutside(cell, lo, hi) ==
    /\ ~cell.nan
    /\ \/ cell.n * lo.d < lo.n * cell.d
       \/ cell.n * hi.d > hi.n * cell.d

\* the number of rows of a column strictly outside [lo, hi]
CountOutside(col, lo, hi) ==
    Cardinality({i \in DOMAIN col : StrictlyOutside(col[i], lo, hi)})

\* C3: threshold counts exactly the rows strictly below min_val or strictly
\* above max_val, dynamic_threshold exactly those strictly below
\* reference_value*(1-tolerance) or strictly above reference_value*(1+tolerance);
\* a row equal to a bound is not counted, and the rule passes iff the count is 0.
C3_BoundsAreInside ==
    /\ ( CalledCheck("threshold", 4) /\ call.args[2] \in Columns(call.args[1]) )
       => LET col == call.args[1].data[call.args[2]]
              expected == CountOutside(col, call.args[3], call.args[4])
          IN  /\ result.status = "ok"
              /\ IF call.kind = "metrics" THEN result.value = expected
                 ELSE result.value[1] = (expected = 0)
    /\ ( CalledCheck("dynamic_threshold", 4) /\ call.args[2] \in Columns(call.args[1]) )
       => LET col == call.args[1].data[call.args[2]]
              ref == call.args[3]
              tol == call.args[4]
              lo == [n |-> ref.n * (tol.d - tol.n), d |-> ref.d * tol.d]
              hi == [n |-> ref.n * (tol.d + tol.n), d |-> ref.d * tol.d]
              expected == CountOutside(col, lo, hi)
          IN  /\ result.status = "ok"
              /\ IF call.kind = "metrics" THEN result.value = expected
                 ELSE result.value[1] = (expected = 0)

\* the threshold rule passed on a column holding both of its bounds
C3_Witness ==
    /\ CalledCheck("threshold", 4)
    /\ call.kind = "rules"
    /\ result.status = "ok"
    /\ result.value[1]
    /\ call.args[3] # call.args[4]
    /\ call.args[2] \in Columns(call.args[1])
    /\ {call.args[3], call.args[4]} \subseteq Range(call.args[1].data[call.args[2]])

\* the last p entries of S, all of S when it has fewer
LastEntries(S, p) == SubSeq(S, Len(S) - Min(p, Len(S)) + 1, Len(S))

\* mean - 3*std_dev <= c <= mean + 3*std_dev for the mean and the population
\* standard deviation of xs: (n*c - sum)^2 <= 9*(n*sumsq - sum^2); never
\* for an empty xs, whose mean is NaN
WithinThreeSigma(xs, c) ==
    LET n == Len(xs)
        sum == SumSeq(xs)
        sumsq == SumSeq([i \in 1..n |-> xs[i] * xs[i]])
    IN  /\ n > 0
        /\ Square(n * c.n - sum * c.d) <= 9 * (n * sumsq - sum * sum) * c.d * c.d

\* the lookback_period of a record_anomalies call: the argument after the
\* first `before`, or the default
LookbackOf(args, before) == IF Len(args) > before THEN args[before + 1] ELSE DefaultLookback

\* C4: the record_anomalies rule passes iff mean - 3*std_dev <= current_count
\* <= mean + 3*std_dev for the mean and the population standard deviation of
\* the last lookback_period entries of the history (all of it when it has
\* fewer), which are the values the metric returns.
C4_WindowIsLastEntries ==
    /\ ( Called /\ call.check_type = "record_anomalies" /\ call.kind = "rules"
         /\ Len(call.args) >= 2 )
       => LET window == LastEntries(call.args[1], LookbackOf(call.args, 2))
          IN  /\ result.status = "ok"
              /\ result.value[1] = WithinThreeSigma(window, call.args[2])
    /\ ( Called /\ call.check_type = "record_anomalies" /\ call.kind = "metrics" )
       => LET window == LastEntries(call.args[1], LookbackOf(call.args, 1))
          IN  /\ result.status = "ok"
              /\ result.value = <<np_mean(window), np_std(window)>>

\* C5: schema_consistency and column_name_consistency are the names expected
\* minus the names of the table's columns: giving the table a column that is
\* not expected changes neither metric nor verdict, taking an expected column
\* away adds its name to the metric and fails the rule, and the rule passes
\* iff the difference is empty.
C5_SetDifferencesAreDirectional ==
    [][ /\ \A E \in NameLists, c \in ColNames :
            /\ ( /\ c \notin Columns(sample_data)
                 /\ Columns(sample_data') = Columns(sample_data) \cup {c}
                 /\ c \notin Range(E) )
               => /\ metrics("schema_consistency", <<sample_data', E>>, NoKwargs)
                       = metrics("schema_consistency", <<sample_data, E>>, NoKwargs)
                  /\ rules("schema_consistency", <<sample_data', E>>, NoKwargs)
                       = rules("schema_consistency", <<sample_data, E>>, NoKwargs)
                  /\ metrics("column_name_consistency", <<sample_data', E>>, NoKwargs)
                       = metrics("column_name_consistency", <<sample_data, E>>, NoKwargs)
                  /\ rules("column_name_consistency", <<sample_data', E>>, NoKwargs)
                       = rules("column_name_consistency", <<sample_data, E>>, NoKwargs)
            /\ ( /\ c \in Columns(sample_data)
                 /\ Columns(sample_data') = Columns(sample_data) \ {c}
                 /\ c \in Range(E) )
               => /\ metrics("schema_consistency", <<sample_data', E>>, NoKwargs).value
                       = metrics("schema_consistency", <<sample_data, E>>, NoKwargs).value
                            \cup {c}
                  /\ ~rules("schema_consistency", <<sample_data', E>>, NoKwargs).value[1]
                  /\ metrics("column_name_consistency", <<sample_data', E>>, NoKwargs).value
                       = metrics("column_name_consistency", <<sample_data, E>>, NoKwargs).value
                            \cup {c}
                  /\ ~rules("column_name_consistency", <<sample_data', E>>, NoKwargs).value[1]
        /\ ( /\ call'.kind \in {"metrics", "rules"}
             /\ call'.check_type \in {"schema_consistency", "column_name_consistency"} )
           => LET difference == Range(call'.args[2]) \ Columns(call'.args[1])
              IN  /\ result'.status = "ok"
                  /\ IF call'.kind = "metrics" THEN result'.value = difference
                     ELSE result'.value[1] = (difference = {}) ]_vars

\* the schema rule failed on a table that lost an expected column and had
\* been given a column that is not expected
C5_Witness ==
    /\ CalledCheck("schema_consistency", 2)
    /\ call.kind = "rules"
    /\ call.args[2] = <<"id">>
    /\ Columns(call.args[1]) = {"value"}
    /\ \A i \in 1..call.args[1].nrows : call.args[1].data["value"][i].nan
    /\ ~result.value[1]
    /\ result.value[2].subst.missing_cols = {"id"}

\* the number of missing values of a column of a table
NullCount(T, c) == Cardinality({i \in 1..T.nrows : T.data[c][i].nan})

\* C6: for a list of columns of the table, the non_null metric maps each
\* column of the list to its number of null values, the rule passes iff every
\* one of them is 0, and the rule's message lists exactly the columns of the
\* list with a nonzero number, with their numbers.
C6_NullCountsPerColumn ==
    ( CalledCheck("non_null", 2) /\ Range(call.args[2]) \subseteq Columns(call.args[1]) )
    => LET T == call.args[1]
           L == Range(call.args[2])
       IN  /\ result.status = "ok"
           /\ IF call.kind = "metrics"
              THEN result.value = [c \in L |-> NullCount(T, c)]
              ELSE /\ result.value[1] = (\A c \in L : NullCount(T, c) = 0)
                   /\ result.value[2].subst.invalid_cols
                         = [c \in {k \in L : NullCount(T, k) > 0} |-> NullCount(T, c)]

\* the rule failed on a list of two columns of which one has null values
C6_Witness ==
    /\ CalledCheck("non_null", 2)
    /\ call.kind = "rules"
    /\ call.args[2] = <<"id", "value">>
    /\ result.status = "ok"
    /\ ~result.value[1]
    /\ DOMAIN result.value[2].subst.invalid_cols = {"value"}
    /\ result.value[2].subst.invalid_cols["value"] = 2

\* the sample variance (n - 1 denominator) of the values of a column is at
\* most max: (n*sumsq - sum^2)/(n*(n-1)) <= max; never with fewer than two
\* values, when the variance is NaN
SampleVarianceAtMost(col, max) ==
    LET present == {i \in DOMAIN col : ~col[i].nan}
        n == Cardinality(present)
        xs == [i \in DOMAIN col |-> IF i \in present THEN col[i].n ELSE 0]
        sum == SumSeq(xs)
        sumsq == SumSeq([i \in DOMAIN col |-> xs[i] * xs[i]])
    IN  /\ n >= 2
        /\ (n * sumsq - sum * sum) * max.d <= max.n * n * (n - 1)

\* the max_variance a variance rule call supplies, by position or by name
SuppliesMaximum == Len(call.args) = 3 \/ \E kv \in call.kwargs : kv[1] = "max_variance"

SuppliedMaximum ==
    IF Len(call.args) = 3 THEN call.args[3]
    ELSE (CHOOSE kv \in call.kwargs : kv[1] = "max_variance")[2]

====
